---- MODULE Spec2Model ----
(***************************************************************************)
(* Model of the search core of smart_library_bot: the text normalizer and  *)
(* the scorer (advanced_search.js), the result cache wrapper around        *)
(* node-cache (search_cache.js), the input validator (validators.js) and   *)
(* the message handler handleSearchEngine (search_engine.js).              *)
(*                                                                         *)
(* A JavaScript string is a sequence of characters; a character is a TLA+  *)
(* string naming it ("kaf_fa" is the Persian kaf, "ar3" the Arabic-Indic   *)
(* digit three, "3" the ASCII digit three, " " the space).                 *)
(***************************************************************************)
EXTENDS Integers, Sequences, FiniteSets, TLC

(***************************************************************************)
(* Bounds of the model.  stdTTL and maxKeys are the configuration values   *)
(* of config.cache scaled down (600 seconds, 1000 keys in the source) so   *)
(* that expiry and a full cache are reached.                               *)
(***************************************************************************)
stdTTL == 1

maxKeys == 1

\* the rows of search_history
MaxHistory == 1

\* the longest core of a query drawn for the normalizer (white space may
\* stand before and after it)
NormLen == 2

\* the longest string passed to calculateSimilarity and levenshteinDistance
\* when they are called on their own
PureLen == 3

\* the longest title, author or query scoreBook is called with on its own
FieldLen == 2

\* the calls of get in a run: enough to fill the cache and to search once
\* more
MaxCount == maxKeys + 1

\* the clock runs until an entry stored at the start has expired
MaxTime == stdTTL + 1

\* the deliveries of one book
MaxRequests == MaxHistory

(***************************************************************************)
(* State.                                                                  *)
(***************************************************************************)
VARIABLES
  enabled,     \* config.cache.enabled
  usol_books,  \* table usol_books: the rows, in id order (text columns)
  now,         \* the clock, in seconds
  data,        \* the entries of searchCache
  hits,        \* search_cache.js: hits
  misses,      \* search_cache.js: misses
  gets,        \* the calls of get since the start or the last flush
  lookups,     \* the calls of get since the start
  counters,    \* usol_books: request_count and total_requests of every book
  history,     \* search_history: the rows, oldest first
  proc,        \* the requests in flight: where each one stands
  last,        \* the last call of an exported cache function and what it returned
  applied      \* the last call of a function of the scorer and what it returned

vars ==
  <<enabled, usol_books, applied, now, data, hits, misses, gets, lookups, counters, history,
    proc, last>>

\* what no step of a request or of the cache changes: the configuration, the
\* text columns of the catalog, the record of the scorer calls
static == <<enabled, usol_books, applied>>

Procs == {"p1", "p2"}

(***************************************************************************)
(* Sequence helpers.                                                       *)
(***************************************************************************)
Max(a, b) == IF a >= b THEN a ELSE b

Min(a, b) == IF a <= b THEN a ELSE b

Range(s) == {s[i] : i \in 1..Len(s)}

\* Array.prototype.indexOf / String.prototype.indexOf for one element,
\* 1-based; 0 stands for JavaScript's -1.
IndexOf(s, c) ==
  IF \E i \in 1..Len(s) : s[i] = c
    THEN CHOOSE i \in 1..Len(s) : s[i] = c /\ \A j \in 1..(i - 1) : s[j] # c
    ELSE 0

\* String.prototype.startsWith
StartsWith(s, p) == Len(p) <= Len(s) /\ SubSeq(s, 1, Len(p)) = p

\* String.prototype.includes
Includes(s, p) ==
  \E i \in 0..(Len(s) - Len(p)) : SubSeq(s, i + 1, i + Len(p)) = p

\* slice that cuts nothing
Slice0Whole(s, n) == s

\* Array.prototype.slice(0, n); a negative n counts from the end
Slice0(s, n) ==
  IF n >= 0 THEN SubSeq(s, 1, Min(Len(s), n)) ELSE SubSeq(s, 1, Max(Len(s) + n, 0))

(***************************************************************************)
(* Character classes.                                                      *)
(***************************************************************************)
arabicDigits == <<"ar0", "ar1", "ar2", "ar3", "ar4", "ar5", "ar6", "ar7", "ar8", "ar9">>

persianDigits == <<"fa0", "fa1", "fa2", "fa3", "fa4", "fa5", "fa6", "fa7", "fa8", "fa9">>

englishDigits == <<"0", "1", "2", "3", "4", "5", "6", "7", "8", "9">>

\* /[A-Za-z]/ restricted to the Latin letters of the model's alphabet
LatinUpper == {"A", "B"}

LatinLower == {"a", "b"}

\* \p{Emoji}: the Unicode Emoji property holds of the pictographs and also
\* of the ASCII digits, '#' and '*'.
EmojiClass == {"emoji", "#", "*"} \cup Range(englishDigits)

\* what String.prototype.trim removes
WhiteSpace == {" "}

(***************************************************************************)
(* Text normalizer (advanced_search.js).                                   *)
(***************************************************************************)
\* the Persian digits looked up one place off
convertToEnglishDigitsShifted(inputStr) ==
  [i \in 1..Len(inputStr) |->
     LET char == inputStr[i]
         index == IndexOf(arabicDigits, char)
         index2 == IndexOf(persianDigits, char)
     IN IF index # 0 THEN englishDigits[index]
        ELSE IF index2 # 0 THEN englishDigits[(index2 % 10) + 1]
        ELSE char]

convertToEnglishDigits(inputStr) ==
  [i \in 1..Len(inputStr) |->
     LET char == inputStr[i]
         index == IndexOf(arabicDigits, char)
         index2 == IndexOf(persianDigits, char)
     IN IF index # 0 THEN englishDigits[index]
        ELSE IF index2 # 0 THEN englishDigits[index2]
        ELSE char]

\* String.prototype.replace(/from/g, to) for a one-character pattern
ReplaceAll(text, from, to) ==
  [i \in 1..Len(text) |-> IF text[i] \in from THEN to ELSE text[i]]

RECURSIVE TrimStart(_)
TrimStart(s) ==
  IF s # <<>> /\ Head(s) \in WhiteSpace THEN TrimStart(Tail(s)) ELSE s

RECURSIVE TrimEnd(_)
TrimEnd(s) ==
  IF s # <<>> /\ s[Len(s)] \in WhiteSpace
    THEN TrimEnd(SubSeq(s, 1, Len(s) - 1))
    ELSE s

\* String.prototype.trim
Trim(s) == TrimEnd(TrimStart(s))

\* the Persian yeh folded to alef maksura, after alef maksura was folded
normalizeYehInTwoSteps(text) ==
  LET r1 == ReplaceAll(text, {"kaf_fa"}, "kaf")
      r3 == ReplaceAll(r1, {"alef_maksura"}, "yeh")
      r2 == ReplaceAll(r3, {"yeh_fa"}, "alef_maksura")
      r4 == ReplaceAll(r2, {"yeh_hamza"}, "yeh")
      r5 == ReplaceAll(r4, {"waw_hamza"}, "waw")
      r6 == ReplaceAll(r5, {"alef_hamza_below", "alef_hamza_above", "alef_madda"}, "alef")
      r7 == ReplaceAll(r6, {"teh_marbuta"}, "heh")
  IN Trim(r7)

\* the normalizer without the folding of teh marbuta
normalizeKeepsTehMarbuta(text) ==
  LET r1 == ReplaceAll(text, {"kaf_fa"}, "kaf")
      r2 == ReplaceAll(r1, {"yeh_fa"}, "yeh")
      r3 == ReplaceAll(r2, {"alef_maksura"}, "yeh")
      r4 == ReplaceAll(r3, {"yeh_hamza"}, "yeh")
      r5 == ReplaceAll(r4, {"waw_hamza"}, "waw")
      r6 == ReplaceAll(r5, {"alef_hamza_below", "alef_hamza_above", "alef_madda"}, "alef")
  IN Trim(r6)

normalizePersianArabicChars(text) ==
  LET r1 == ReplaceAll(text, {"kaf_fa"}, "kaf")
      r2 == ReplaceAll(r1, {"yeh_fa"}, "yeh")
      r3 == ReplaceAll(r2, {"alef_maksura"}, "yeh")
      r4 == ReplaceAll(r3, {"yeh_hamza"}, "yeh")
      r5 == ReplaceAll(r4, {"waw_hamza"}, "waw")
      r6 == ReplaceAll(r5, {"alef_hamza_below", "alef_hamza_above", "alef_madda"}, "alef")
      r7 == ReplaceAll(r6, {"teh_marbuta"}, "heh")
  IN Trim(r7)

\* String.prototype.toLowerCase
ToLowerCase(s) ==
  [i \in 1..Len(s) |->
     IF s[i] = "A" THEN "a" ELSE IF s[i] = "B" THEN "b" ELSE s[i]]

\* the normalization advancedSearch and handleSearchEngine apply to a query
NormalizeQuery(query) == convertToEnglishDigits(normalizePersianArabicChars(query))

(***************************************************************************)
(* Input validation (validators.js).                                       *)
(***************************************************************************)
MaxInputLength == 37

\* the reason validateUserInput rejects the input for, "ok" when it accepts
validateUserInput(userInput, media) ==
  IF \E i \in 1..Len(userInput) : userInput[i] \in LatinUpper \cup LatinLower THEN "latin"
  ELSE IF Len(userInput) > MaxInputLength THEN "length"
  ELSE IF \E i \in 1..Len(userInput) : userInput[i] \in EmojiClass THEN "emoji"
  ELSE IF media THEN "media"
  ELSE "ok"

(***************************************************************************)
(* Input texts.                                                            *)
(***************************************************************************)
Fiqh == <<"feh", "qaf", "heh">>

\* the same word written with ta marbuta, between spaces
FiqhVariant == <<" ", "feh", "qaf", "teh_marbuta", " ">>

Blank == <<" ", " ">>

LongText == [i \in 1..(MaxInputLength + 1) |-> "feh"]

\* ctx.message.text of the messages the bot receives
MessageTexts ==
  {Fiqh, FiqhVariant, Blank, LongText, <<"A", "feh">>, <<"emoji">>, <<"1">>, <<"fa9">>}

\* the messages: ctx.message.text, and whether a photo, video or document
\* is attached
Messages ==
  [text : MessageTexts, media : {FALSE}] \cup {[text |-> Fiqh, media |-> TRUE]}

\* book_id of the callback similar_result_<id>
CallbackIds == {<<"2">>}

\* queries of the other callers of the exported advancedSearch
SearchQueries == {Fiqh}

\* the author both books share (the second one in a variant spelling)
Ali == <<"ayn", "lam", "yeh">>

\* queries of the searches made with options of every kind
DirectQueries == {Fiqh, Ali, <<"1">>, <<"9">>}

\* the characters of the queries drawn for the normalizer: white space, the
\* letters the normalizer folds and the letters it folds them to, a digit
\* of each script
NormChars ==
  {" ", "kaf_fa", "kaf", "yeh_fa", "alef_maksura", "yeh_hamza", "yeh", "waw_hamza", "waw",
   "alef_hamza_below", "alef_hamza_above", "alef_madda", "alef", "teh_marbuta", "heh",
   "ar1", "fa9", "1"}

NormPads == {<<>>, <<" ">>}

\* the characters of the strings calculateSimilarity and levenshteinDistance
\* are called with on their own: two letters, one of them in both cases
PureChars == {"a", "A", "b"}

PureStrings == UNION {[1..k -> PureChars] : k \in 0..PureLen}

\* the strings calculateSimilarity passes to levenshteinDistance are in lower
\* case
EditStrings == {ToLowerCase(t) : t \in PureStrings}

\* the characters of the titles, authors and queries scoreBook is called
\* with on its own: white space, a letter and its look-alike, a digit in two
\* scripts, a Latin letter in both cases
FieldChars == {" ", "yeh_fa", "yeh", "fa9", "9", "A", "a"}

FieldStrings == UNION {[1..k -> FieldChars] : k \in 0..FieldLen}

NormStrings ==
  {l \o c \o r : l \in NormPads, r \in NormPads,
                 c \in UNION {[1..k -> NormChars] : k \in 0..NormLen}}

(***************************************************************************)
(* Configuration (config.js).  Fractions are kept exact: the weights and   *)
(* the fuzzy threshold are in tenths.                                      *)
(***************************************************************************)
config ==
  [search |-> [maxQueryLength |-> 37,
               maxSimilarResults |-> 10,
               weights |-> [bookName |-> 7, authorName |-> 3],
               fuzzyThreshold |-> 3]]

(***************************************************************************)
(* The catalog (table usol_books).  The text columns are fixed; the        *)
(* counters request_count and total_requests are state.                    *)
(***************************************************************************)
Books ==
  <<[id |-> 1,
     book_name |-> <<"feh", "qaf", "heh">>,
     author_name |-> <<"ayn", "lam", "yeh">>,
     category |-> "fiqh",
     file_parts |-> 1],
    [id |-> 2,
     book_name |-> <<"kaf", "teh", "alef", "beh">>,
     author_name |-> <<"ayn", "lam", "yeh_fa">>,
     category |-> "usul",
     file_parts |-> 0]>>

\* a column that holds SQL NULL (the legacy schema declares book_name and
\* author_name without NOT NULL)
Null == <<"NULL">>

\* the catalog with a row whose title is missing
LegacyBooks == <<Books[1], [Books[2] EXCEPT !.book_name = Null]>>

\* a catalog of two books on fiqh: "ktab alfqh" by "mHmd" and
\* "fqh almEamlat" by "Ely"
ExampleBooks ==
  <<[id |-> 1,
     book_name |-> <<"kaf", "teh", "alef", "beh", " ", "alef", "lam", "feh", "qaf", "heh">>,
     author_name |-> <<"meem", "hah", "meem", "dal">>,
     category |-> "fiqh",
     file_parts |-> 1],
    [id |-> 2,
     book_name |-> <<"feh", "qaf", "heh", " ", "alef", "lam", "meem", "ayn", "alef", "meem",
                     "lam", "alef", "teh">>,
     author_name |-> <<"ayn", "lam", "yeh">>,
     category |-> "fiqh",
     file_parts |-> 1]>>

\* a catalog with digits in the titles: "99" and "ktab 9"
NumberedBooks ==
  <<[id |-> 1,
     book_name |-> <<"9", "9">>,
     author_name |-> <<"ayn", "lam", "yeh">>,
     category |-> "fiqh",
     file_parts |-> 1],
    [id |-> 2,
     book_name |-> <<"kaf", "teh", "alef", "beh", " ", "9">>,
     author_name |-> <<"ayn", "lam", "yeh">>,
     category |-> "usul",
     file_parts |-> 1]>>

Catalogs == {Books, LegacyBooks, ExampleBooks, NumberedBooks}

BookIds == {Books[i].id : i \in 1..Len(Books)}

\* the row of usol_books with this id
BookOf(id) == usol_books[CHOOSE i \in 1..Len(usol_books) : usol_books[i].id = id]

(***************************************************************************)
(* Similarity scorer (advanced_search.js).  A similarity is an integer     *)
(* number of units of 1/SimOne and a score an integer number of units of   *)
(* 1/ScoreOne, so that 1 - distance/maxLen, the weights and the boost are  *)
(* exact rationals.                                                        *)
(***************************************************************************)
\* the texts that reach the scorer: the columns and the accepted queries
ScoredTexts ==
  UNION {UNION {{c[i].book_name, c[i].author_name} : i \in 1..Len(c)} : c \in Catalogs}
  \cup {t \in MessageTexts : Len(t) <= MaxInputLength} \cup CallbackIds \cup SearchQueries
  \cup DirectQueries

MaxTextLen ==
  Max(CHOOSE n \in {Len(t) : t \in ScoredTexts} : \A t \in ScoredTexts : Len(t) <= n,
      NormLen + 2)

RECURSIVE Gcd(_, _)
Gcd(a, b) == IF b = 0 THEN a ELSE Gcd(b, a % b)

RECURSIVE LcmUpTo(_)
LcmUpTo(n) == IF n <= 1 THEN 1 ELSE (LcmUpTo(n - 1) * n) \div Gcd(LcmUpTo(n - 1), n)

LenLcm == LcmUpTo(MaxTextLen)

SimOne == 10 * LenLcm

ScoreOne == 10 * SimOne

\* the distance in which a substitution is not a step of its own
levenshteinDistanceNoSubstitution(str1, str2) ==
  LET m == Len(str1)
      n == Len(str2)
      dp[i \in 0..m, j \in 0..n] ==
        IF j = 0 THEN i
        ELSE IF i = 0 THEN j
        ELSE IF str1[i] = str2[j] THEN dp[i - 1, j - 1]
        ELSE Min(dp[i - 1, j], dp[i, j - 1]) + 1
  IN dp[m, n]

levenshteinDistance(str1, str2) ==
  LET m == Len(str1)
      n == Len(str2)
      dp[i \in 0..m, j \in 0..n] ==
        IF j = 0 THEN i
        ELSE IF i = 0 THEN j
        ELSE IF str1[i] = str2[j] THEN dp[i - 1, j - 1]
        ELSE Min(Min(dp[i - 1, j], dp[i, j - 1]), dp[i - 1, j - 1]) + 1
  IN dp[m, n]

\* the cascade without the test for a prefix
calculateSimilarityNoPrefix(str1, str2) ==
  LET s1 == ToLowerCase(str1)
      s2 == ToLowerCase(str2)
  IN IF s1 = s2 THEN SimOne
     ELSE IF Includes(s1, s2) \/ Includes(s2, s1) THEN 7 * LenLcm
     ELSE LET distance == levenshteinDistance(s1, s2)
              maxLen == Max(Len(s1), Len(s2))
          IN SimOne - (distance * SimOne) \div maxLen

\* the cascade with the test for containment before the test for a prefix
calculateSimilarityContainsFirst(str1, str2) ==
  LET s1 == ToLowerCase(str1)
      s2 == ToLowerCase(str2)
  IN IF s1 = s2 THEN SimOne
     ELSE IF Includes(s1, s2) \/ Includes(s2, s1) THEN 7 * LenLcm
     ELSE IF StartsWith(s1, s2) \/ StartsWith(s2, s1) THEN 9 * LenLcm
     ELSE LET distance == levenshteinDistance(s1, s2)
              maxLen == Max(Len(s1), Len(s2))
          IN SimOne - (distance * SimOne) \div maxLen

calculateSimilarity(str1, str2) ==
  LET s1 == ToLowerCase(str1)
      s2 == ToLowerCase(str2)
  IN IF s1 = s2 THEN SimOne
     ELSE IF StartsWith(s1, s2) \/ StartsWith(s2, s1) THEN 9 * LenLcm
     ELSE IF Includes(s1, s2) \/ Includes(s2, s1) THEN 7 * LenLcm
     ELSE LET distance == levenshteinDistance(s1, s2)
              maxLen == Max(Len(s1), Len(s2))
          IN SimOne - (distance * SimOne) \div maxLen

\* the score with a boost that has no cap
scoreBookUncapped(book, query) ==
  LET normalizedQuery == normalizePersianArabicChars(ToLowerCase(query))
      normalizedBookName == normalizePersianArabicChars(ToLowerCase(book.book_name))
      normalizedAuthorName == normalizePersianArabicChars(ToLowerCase(book.author_name))
      bookNameScore == calculateSimilarity(normalizedBookName, normalizedQuery)
      authorNameScore == calculateSimilarity(normalizedAuthorName, normalizedQuery)
      totalScore == bookNameScore * config.search.weights.bookName
                    + authorNameScore * config.search.weights.authorName
  IN totalScore + book.request_count * LenLcm

\* book: a row of usol_books; request_count is the row's counter
scoreBook(book, query) ==
  LET normalizedQuery == normalizePersianArabicChars(ToLowerCase(query))
      normalizedBookName == normalizePersianArabicChars(ToLowerCase(book.book_name))
      normalizedAuthorName == normalizePersianArabicChars(ToLowerCase(book.author_name))
      bookNameScore == calculateSimilarity(normalizedBookName, normalizedQuery)
      authorNameScore == calculateSimilarity(normalizedAuthorName, normalizedQuery)
      totalScore == bookNameScore * config.search.weights.bookName
                    + authorNameScore * config.search.weights.authorName
      popularityBoost == Min(book.request_count * LenLcm, 10 * LenLcm)
  IN totalScore + popularityBoost

\* scoreBook throws a TypeError: toLowerCase is called on a column that is
\* null
scoreBookThrows(book) == book.book_name = Null \/ book.author_name = Null

(***************************************************************************)
(* Search options.  A JavaScript object is the sequence of its own         *)
(* properties in insertion order; a property is [name, kind, s, n] with    *)
(* kind "str" (value s, a string), "num" (value n) or "null".              *)
(***************************************************************************)
StrProp(name, s) == [name |-> name, kind |-> "str", s |-> s, n |-> 0]

NumProp(name, n) == [name |-> name, kind |-> "num", s |-> <<>>, n |-> n]

Undefined(name) == [name |-> name, kind |-> "undefined", s |-> <<>>, n |-> 0]

\* options[name]
Prop(options, name) ==
  IF \E i \in 1..Len(options) : options[i].name = name
    THEN options[CHOOSE i \in 1..Len(options) : options[i].name = name]
    ELSE Undefined(name)

\* JavaScript truthiness of a property value
Truthy(prop) ==
  \/ prop.kind = "str" /\ prop.s # <<>>
  \/ prop.kind = "num" /\ prop.n # 0

RECURSIVE Decimal(_)
Decimal(n) ==
  IF n < 10 THEN <<englishDigits[n + 1]>>
  ELSE Decimal(n \div 10) \o <<englishDigits[(n % 10) + 1]>>

JsonValue(prop) ==
  IF prop.kind = "str" THEN <<"\"">> \o prop.s \o <<"\"">>
  ELSE IF prop.kind = "num" THEN Decimal(prop.n)
  ELSE <<"null">>

RECURSIVE JsonMembers(_)
JsonMembers(options) ==
  IF options = <<>> THEN <<>>
  ELSE <<"\"", Head(options).name, "\"", ":">> \o JsonValue(Head(options))
       \o (IF Len(options) > 1 THEN <<",">> ELSE <<>>)
       \o JsonMembers(Tail(options))

\* JSON.stringify(options): the properties in insertion order
JSONstringify(options) == <<"{">> \o JsonMembers(options) \o <<"}">>

(***************************************************************************)
(* Result cache (search_cache.js) over node-cache.  data maps a stored key *)
(* to [v, t]: the value and the time after which the entry is expired.     *)
(***************************************************************************)
generateSearchKey(query, options) ==
  LET optionsStr == JSONstringify(options)
  IN <<"search:">> \o query \o <<":">> \o optionsStr

\* node-cache _check: an entry is live unless its time has passed
NcLive(d, key, time) == key \in DOMAIN d /\ ~(d[key].t # 0 /\ d[key].t < time)

NcRemove(d, keys) == [k \in (DOMAIN d) \ keys |-> d[k]]

\* node-cache get: [found, value, data]; an expired entry is deleted
NcGet(d, key, time) ==
  IF NcLive(d, key, time)
    THEN [found |-> TRUE, value |-> d[key].v, data |-> d]
    ELSE [found |-> FALSE, value |-> <<>>, data |-> NcRemove(d, {key})]

\* node-cache set: throws ECACHEFULL when the cache holds maxKeys keys,
\* otherwise stores the value for ttl seconds (stdTTL when ttl is falsy)
NcSet(d, key, value, ttl, time) ==
  IF Cardinality(DOMAIN d) >= maxKeys
    THEN [threw |-> TRUE, data |-> d]
    ELSE [threw |-> FALSE,
          data |-> [k \in (DOMAIN d) \cup {key} |->
                      IF k = key
                        THEN [v |-> value, t |-> time + (IF ttl # 0 THEN ttl ELSE stdTTL)]
                        ELSE d[k]]]

\* node-cache _checkData: the periodic sweep deletes the expired entries
NcCheckData(d, time) == NcRemove(d, {k \in DOMAIN d : ~NcLive(d, k, time)})

(***************************************************************************)
(* Ordering of results (advanced_search.js, the three sort modes).         *)
(***************************************************************************)
\* the characters in collation order (code point order stands for the
\* locale's collation)
Collation ==
  <<" ", "#", "*">> \o englishDigits \o <<"A", "B", "a", "b">>
  \o <<"alef_madda", "alef_hamza_above", "waw_hamza", "alef_hamza_below", "yeh_hamza",
       "alef", "beh", "teh_marbuta", "teh", "hah", "dal", "ayn", "feh", "qaf", "kaf", "lam", "meem",
       "noon", "heh", "waw", "alef_maksura", "yeh">>
  \o arabicDigits \o <<"kaf_fa", "yeh_fa">> \o persianDigits \o <<"emoji">>

Alphabet == Range(Collation)

RECURSIVE localeCompare(_, _)
\* String.prototype.localeCompare: negative, zero or positive
localeCompare(a, b) ==
  IF a = <<>> /\ b = <<>> THEN 0
  ELSE IF a = <<>> THEN 0 - 1
  ELSE IF b = <<>> THEN 1
  ELSE IF Head(a) = Head(b) THEN localeCompare(Tail(a), Tail(b))
  ELSE IF IndexOf(Collation, Head(a)) < IndexOf(Collation, Head(b)) THEN 0 - 1
  ELSE 1

\* the comparator advancedSearch passes to sort for sortBy
Comparator(sortBy, a, b) ==
  IF sortBy = <<"popularity">> THEN b.request_count - a.request_count
  ELSE IF sortBy = <<"name">>
    THEN localeCompare(BookOf(a.id).book_name, BookOf(b.id).book_name)
  ELSE b.score - a.score

\* x placed after every element that does not sort after it
InsertSorted(sorted, x, sortBy) ==
  LET after == {i \in 1..Len(sorted) : Comparator(sortBy, sorted[i], x) > 0}
      pos == IF after = {} THEN Len(sorted) + 1
             ELSE CHOOSE i \in after : \A j \in after : i <= j
  IN SubSeq(sorted, 1, pos - 1) \o <<x>> \o SubSeq(sorted, pos, Len(sorted))

RECURSIVE SortFrom(_, _, _)
SortFrom(sorted, rest, sortBy) ==
  IF rest = <<>> THEN sorted
  ELSE SortFrom(InsertSorted(sorted, Head(rest), sortBy), Tail(rest), sortBy)

\* Array.prototype.sort with the comparator: a stable sort
Sort(list, sortBy) == SortFrom(<<>>, list, sortBy)

\* filter that lets every candidate through
FilterScoreKeepsAll(list, threshold) == list

\* Array.prototype.filter
RECURSIVE FilterScore(_, _)
FilterScore(list, threshold) ==
  IF list = <<>> THEN <<>>
  ELSE (IF Head(list).score >= threshold THEN <<Head(list)>> ELSE <<>>)
       \o FilterScore(Tail(list), threshold)

(***************************************************************************)
(* The synchronous part of advancedSearch after the rows are fetched.      *)
(***************************************************************************)
\* /^\d+$/
IsNumeric(q) == q # <<>> /\ \A i \in 1..Len(q) : q[i] \in Range(englishDigits)

RECURSIVE ParseInt(_)
ParseInt(q) ==
  IF q = <<>> THEN 0
  ELSE 10 * ParseInt(SubSeq(q, 1, Len(q) - 1)) + (IndexOf(englishDigits, q[Len(q)]) - 1)

\* the rows db.all returns: the catalog rows, in id order, that pass the
\* category and author filters of the SQL query
RECURSIVE SelectRows(_, _, _)
SelectRows(books, counts, options) ==
  IF books = <<>> THEN <<>>
  ELSE LET b == Head(books)
           category == Prop(options, "category")
           author == Prop(options, "author")
           keep == /\ Truthy(category) => (category.kind = "str" /\ <<b.category>> = category.s)
                   /\ Truthy(author) =>
                        (author.kind = "str"
                         /\ Includes(ToLowerCase(b.author_name), ToLowerCase(author.s)))
       IN (IF keep
             THEN <<[id |-> b.id,
                     request_count |-> counts[b.id].request_count,
                     total_requests |-> counts[b.id].total_requests,
                     scored |-> FALSE,
                     score |-> 0]>>
             ELSE <<>>)
          \o SelectRows(Tail(books), counts, options)

scoreRow(row, query) ==
  [row EXCEPT !.scored = TRUE,
              !.score = scoreBook([book_name |-> BookOf(row.id).book_name,
                                   author_name |-> BookOf(row.id).author_name,
                                   request_count |-> row.request_count], query)]

\* the limit advancedSearch destructures from options
LimitOf(options) ==
  LET limit == Prop(options, "limit")
  IN IF limit.kind = "undefined" THEN config.search.maxSimilarResults
     ELSE IF limit.kind = "num" THEN limit.n
     ELSE 0

SortByOf(options) ==
  LET sortBy == Prop(options, "sortBy")
  IN IF sortBy.kind = "undefined" THEN <<"relevance">> ELSE sortBy.s

\* the candidates cut to the limit before they are sorted
ComputeResultsCutFirst(allBooks, normalizedQuery, options) ==
  LET exact == {i \in 1..Len(allBooks) : allBooks[i].id = ParseInt(normalizedQuery)}
      scoredBooks == [i \in 1..Len(allBooks) |-> scoreRow(allBooks[i], normalizedQuery)]
      threshold == config.search.fuzzyThreshold * SimOne
      filteredBooks == FilterScore(scoredBooks, threshold)
  IN IF allBooks = <<>> THEN [cache |-> FALSE, threw |-> FALSE, results |-> <<>>]
     ELSE IF IsNumeric(normalizedQuery) /\ exact # {}
       THEN [cache |-> TRUE, threw |-> FALSE,
             results |-> <<allBooks[CHOOSE i \in exact : \A j \in exact : i <= j]>>]
     ELSE IF \E i \in 1..Len(allBooks) : scoreBookThrows(BookOf(allBooks[i].id))
       THEN [cache |-> FALSE, threw |-> TRUE, results |-> <<>>]
     ELSE [cache |-> TRUE, threw |-> FALSE,
           results |-> Sort(Slice0(filteredBooks, LimitOf(options)), SortByOf(options))]

\* [cache, threw, results]: the list advancedSearch returns for the fetched
\* rows and whether it calls searchCache.set with it, or threw: scoring a
\* row threw inside allBooks.map
ComputeResults(allBooks, normalizedQuery, options) ==
  LET exact == {i \in 1..Len(allBooks) : allBooks[i].id = ParseInt(normalizedQuery)}
      scoredBooks == [i \in 1..Len(allBooks) |-> scoreRow(allBooks[i], normalizedQuery)]
      threshold == config.search.fuzzyThreshold * SimOne
      filteredBooks == Sort(FilterScore(scoredBooks, threshold), SortByOf(options))
  IN IF allBooks = <<>> THEN [cache |-> FALSE, threw |-> FALSE, results |-> <<>>]
     ELSE IF IsNumeric(normalizedQuery) /\ exact # {}
       THEN [cache |-> TRUE, threw |-> FALSE,
             results |-> <<allBooks[CHOOSE i \in exact : \A j \in exact : i <= j]>>]
     ELSE IF \E i \in 1..Len(allBooks) : scoreBookThrows(BookOf(allBooks[i].id))
       THEN [cache |-> FALSE, threw |-> TRUE, results |-> <<>>]
     ELSE [cache |-> TRUE, threw |-> FALSE, results |-> Slice0(filteredBooks, LimitOf(options))]

(***************************************************************************)
(* Options and cache calls of the requests.                                *)
(***************************************************************************)
\* the options handleSearchEngine passes to advancedSearch
HandlerOptions ==
  <<StrProp("sortBy", <<"relevance">>), NumProp("limit", config.search.maxSimilarResults)>>

\* a second search with a limit of its own
AlternativeOptionsWider == <<StrProp("sortBy", <<"relevance">>), NumProp("limit", 20)>>

\* the options of its second, broader search
AlternativeOptions == <<StrProp("sortBy", <<"relevance">>), NumProp("limit", 10)>>

\* the same option set as HandlerOptions, the fields supplied in the other order
ReorderedOptions ==
  <<NumProp("limit", config.search.maxSimilarResults), StrProp("sortBy", <<"relevance">>)>>

SearchOptions == {HandlerOptions, ReorderedOptions}

\* options of every kind: the defaults, a limit that cuts, the three sort
\* modes, a category no book has
DirectOptions ==
  {<<>>,
   <<NumProp("limit", 1)>>,
   <<StrProp("sortBy", <<"popularity">>), NumProp("limit", 1)>>,
   <<StrProp("sortBy", <<"name">>)>>,
   <<StrProp("category", <<"kalam">>)>>}

\* request counts a book can have when a search is made
CounterValues == {0, 10, 20}

\* keys, values and ttls of the direct calls of the exported cache functions
ApiKeys ==
  {generateSearchKey(Fiqh, HandlerOptions), generateSearchKey(<<"1">>, HandlerOptions),
   generateSearchKey(<<"9">>, HandlerOptions)}

ApiValues ==
  {<<>>, <<[id |-> 2, request_count |-> 0, total_requests |-> 0, scored |-> FALSE, score |-> 0]>>}

\* 0 stands for an omitted ttl
ApiTtls == {0, stdTTL + 1}

(***************************************************************************)
(* Requests and calls.                                                      *)
(***************************************************************************)
Idle ==
  [pc |-> "idle", kind |-> "none", text |-> <<>>, media |-> FALSE, call |-> 0,
   arg |-> <<>>, query |-> <<>>, options |-> <<>>,
   key |-> <<>>, db |-> "none", fetched |-> 0, hit |-> FALSE, computed |-> FALSE,
   list |-> <<>>, status |-> "none", results |-> <<>>, err |-> "none", sent |-> 0]

NotApplied == [fn |-> "none", str1 |-> <<>>, str2 |-> <<>>, out |-> 0]

NoCall == [op |-> "none", key |-> <<>>, ttl |-> 0, found |-> FALSE, value |-> <<>>,
           ok |-> FALSE, threw |-> FALSE]

Init ==
  /\ enabled \in BOOLEAN
  /\ usol_books = Books
  /\ now = 0
  /\ data = <<>>
  /\ hits = 0
  /\ misses = 0
  /\ gets = 0
  /\ lookups = 0
  /\ counters = [id \in BookIds |-> [request_count |-> 0, total_requests |-> 0]]
  /\ history = <<>>
  /\ proc = [p \in Procs |-> Idle]
  /\ last = NoCall
  /\ applied = NotApplied

(***************************************************************************)
(* The exported cache functions (search_cache.js), as functions of the     *)
(* state they read; each returns the state it leaves.                      *)
(***************************************************************************)
\* get without the test of config.cache.enabled
getIgnoresEnabled(key) ==
  LET r == NcGet(data, key, now)
  IN IF r.found
       THEN [found |-> TRUE, value |-> r.value, data |-> r.data, hits |-> hits + 1,
             misses |-> misses]
       ELSE [found |-> FALSE, value |-> <<>>, data |-> r.data, hits |-> hits,
             misses |-> misses + 1]

\* get without misses++
getForgetsMisses(key) ==
  LET r == NcGet(data, key, now)
  IN IF enabled /\ r.found
       THEN [found |-> TRUE, value |-> r.value, data |-> r.data, hits |-> hits + 1,
             misses |-> misses]
       ELSE [found |-> FALSE, value |-> <<>>, data |-> IF enabled THEN r.data ELSE data,
             hits |-> hits, misses |-> misses]

\* get(key): [found, value, data, hits, misses]
get(key) ==
  LET r == NcGet(data, key, now)
  IN IF ~enabled
       THEN [found |-> FALSE, value |-> <<>>, data |-> data, hits |-> hits, misses |-> misses]
     ELSE IF r.found
       THEN [found |-> TRUE, value |-> r.value, data |-> r.data, hits |-> hits + 1,
             misses |-> misses]
     ELSE [found |-> FALSE, value |-> <<>>, data |-> r.data, hits |-> hits,
           misses |-> misses + 1]

\* set that never passes ttl on
setIgnoresTtl(d, key, value, ttl) ==
  LET r == NcSet(d, key, value, 0, now)
  IN IF ~enabled THEN [ok |-> FALSE, threw |-> FALSE, data |-> d]
     ELSE [ok |-> ~r.threw, threw |-> r.threw, data |-> r.data]

\* set(key, value, ttl): [ok, threw, data]
set(d, key, value, ttl) ==
  LET r == NcSet(d, key, value, ttl, now)
  IN IF ~enabled THEN [ok |-> FALSE, threw |-> FALSE, data |-> d]
     ELSE [ok |-> ~r.threw, threw |-> r.threw, data |-> r.data]

CacheGet(key) ==
  /\ lookups < MaxCount
  /\ lookups' = lookups + 1
  /\ LET r == get(key)
     IN /\ data' = r.data
        /\ hits' = r.hits
        /\ misses' = r.misses
        /\ last' = [NoCall EXCEPT !.op = "get", !.key = key, !.found = r.found,
                                  !.value = r.value]
  /\ gets' = gets + 1
  /\ UNCHANGED <<static, now, counters, history, proc>>

CacheSet(key, value, ttl) ==
  /\ LET r == set(data, key, value, ttl)
     IN /\ data' = r.data
        /\ last' = [NoCall EXCEPT !.op = "set", !.key = key, !.ttl = ttl, !.value = value,
                                  !.ok = r.ok, !.threw = r.threw]
  /\ UNCHANGED <<static, now, hits, misses, gets, lookups, counters, history, proc>>

CacheDel(key) ==
  /\ data' = NcRemove(data, {key})
  /\ last' = [NoCall EXCEPT !.op = "del", !.key = key, !.found = key \in DOMAIN data]
  /\ UNCHANGED <<static, now, hits, misses, gets, lookups, counters, history, proc>>

\* flush that leaves the counters as they are
CacheFlushKeepsCounters ==
  /\ data' = <<>>
  /\ gets' = 0
  /\ last' = [NoCall EXCEPT !.op = "flush"]
  /\ UNCHANGED <<static, now, hits, misses, lookups, counters, history, proc>>

CacheFlush ==
  /\ data' = <<>>
  /\ hits' = 0
  /\ misses' = 0
  /\ gets' = 0
  /\ last' = [NoCall EXCEPT !.op = "flush"]
  /\ UNCHANGED <<static, now, lookups, counters, history, proc>>

\* getStats(): hits, misses, hitRate in hundredths of a percent, keys
getStats ==
  [hits |-> hits,
   misses |-> misses,
   hitRate |-> IF hits + misses > 0 THEN (hits * 10000) \div (hits + misses) ELSE 0,
   keys |-> Cardinality(DOMAIN data)]

\* time passes
Tick ==
  /\ now < MaxTime
  /\ now' = now + 1
  /\ last' = NoCall
  /\ UNCHANGED <<static, data, hits, misses, gets, lookups, counters, history, proc>>

\* node-cache's periodic check (checkperiod) deletes the expired entries
CheckData ==
  /\ data' = NcCheckData(data, now)
  /\ data' # data
  /\ last' = NoCall
  /\ UNCHANGED <<static, now, hits, misses, gets, lookups, counters, history, proc>>

(***************************************************************************)
(* advancedSearch (advanced_search.js), one action per stretch between two *)
(* awaits.  pc: "as_open" awaits openDb, "as_fetch" awaits db.all,         *)
(* "as_close" awaits db.close of the finally block, "as_ret" is the        *)
(* settled call: status "ok" with results, or "error" with err.            *)
(***************************************************************************)
\* the lookup taking a cached empty list for a miss
BeginSearchEmptyMisses(p, request, query, options) ==
  LET normalizedQuery == NormalizeQuery(query)
      cacheKey == generateSearchKey(normalizedQuery, options)
      cachedResult == get(cacheKey)
      started == [request EXCEPT !.arg = query, !.query = normalizedQuery,
                                 !.options = options, !.key = cacheKey]
  IN /\ lookups < MaxCount
     /\ lookups' = lookups + 1
     /\ gets' = gets + 1
     /\ data' = cachedResult.data
     /\ hits' = cachedResult.hits
     /\ misses' = cachedResult.misses
     /\ proc' = [proc EXCEPT ![p] =
                   IF cachedResult.found /\ cachedResult.value # <<>>
                     THEN [started EXCEPT !.pc = "as_ret", !.hit = TRUE, !.status = "ok",
                                          !.results = cachedResult.value]
                     ELSE [started EXCEPT !.pc = "as_open"]]
     /\ last' = NoCall

\* the call up to its first await: normalize, cache lookup, return on a hit
\* (request: the caller's part of the record of p)
BeginSearch(p, request, query, options) ==
  LET normalizedQuery == NormalizeQuery(query)
      cacheKey == generateSearchKey(normalizedQuery, options)
      cachedResult == get(cacheKey)
      started == [request EXCEPT !.arg = query, !.query = normalizedQuery,
                                 !.options = options, !.key = cacheKey]
  IN /\ lookups < MaxCount
     /\ lookups' = lookups + 1
     /\ gets' = gets + 1
     /\ data' = cachedResult.data
     /\ hits' = cachedResult.hits
     /\ misses' = cachedResult.misses
     /\ proc' = [proc EXCEPT ![p] =
                   IF cachedResult.found
                     THEN [started EXCEPT !.pc = "as_ret", !.hit = TRUE, !.status = "ok",
                                          !.results = cachedResult.value]
                     ELSE [started EXCEPT !.pc = "as_open"]]
     /\ last' = NoCall

\* a call of the exported advancedSearch by another caller
CallAdvancedSearch(p, query, options) ==
  /\ proc[p].pc = "idle"
  /\ BeginSearch(p, [Idle EXCEPT !.kind = "search", !.call = 1], query, options)
  /\ UNCHANGED <<static, now, counters, history>>

\* openDb resolves, or rejects before the try block is entered
OpenDb(p, fails) ==
  /\ proc[p].pc = "as_open"
  /\ proc' = [proc EXCEPT ![p] =
                IF fails
                  THEN [@ EXCEPT !.pc = "as_ret", !.status = "error", !.err = "SQLITE_CANTOPEN"]
                  ELSE [@ EXCEPT !.pc = "as_fetch", !.db = "open"]]
  /\ last' = NoCall
  /\ UNCHANGED <<static, now, data, hits, misses, gets, lookups, counters, history>>

\* a failed fetch answered with an empty list, which is cached
FetchFailsSwallowed(p) ==
  /\ proc[p].pc = "as_fetch"
  /\ data' = NcSet(data, proc[p].key, <<>>, 0, now).data
  /\ proc' = [proc EXCEPT ![p] = [@ EXCEPT !.pc = "as_close", !.fetched = @ + 1,
                                           !.status = "ok", !.err = "SQLITE_ERROR"]]
  /\ last' = NoCall
  /\ UNCHANGED <<static, now, hits, misses, gets, lookups, counters, history>>

\* db.all rejects: the catch block logs and rethrows
FetchFails(p) ==
  /\ proc[p].pc = "as_fetch"
  /\ proc' = [proc EXCEPT ![p] = [@ EXCEPT !.pc = "as_close", !.fetched = @ + 1,
                                           !.status = "error", !.err = "SQLITE_ERROR"]]
  /\ last' = NoCall
  /\ UNCHANGED <<static, now, data, hits, misses, gets, lookups, counters, history>>

\* the fetch that caches the scored rows before they are filtered
FetchCachesScored(p) ==
  /\ proc[p].pc = "as_fetch"
  /\ LET allBooks == SelectRows(usol_books, counters, proc[p].options)
         r == ComputeResults(allBooks, proc[p].query, proc[p].options)
         scoredBooks == [i \in 1..Len(allBooks) |-> scoreRow(allBooks[i], proc[p].query)]
         w == IF r.cache THEN set(data, proc[p].key, scoredBooks, 0)
              ELSE [ok |-> FALSE, threw |-> FALSE, data |-> data]
     IN /\ data' = w.data
        /\ proc' = [proc EXCEPT ![p] =
                      IF r.threw
                        THEN [@ EXCEPT !.pc = "as_close", !.fetched = @ + 1,
                                       !.status = "error", !.err = "TypeError"]
                      ELSE IF w.threw
                        THEN [@ EXCEPT !.pc = "as_close", !.fetched = @ + 1,
                                       !.computed = TRUE, !.list = r.results,
                                       !.status = "error", !.err = "ECACHEFULL"]
                        ELSE [@ EXCEPT !.pc = "as_close", !.fetched = @ + 1,
                                       !.computed = TRUE, !.list = r.results,
                                       !.status = "ok", !.results = r.results]]
  /\ last' = NoCall
  /\ UNCHANGED <<static, now, hits, misses, gets, lookups, counters, history>>

\* db.all resolves: shortcut or score, filter, sort, limit; cache; return.
\* An exception of scoreBook is caught by the catch block and rethrown.
Fetch(p) ==
  /\ proc[p].pc = "as_fetch"
  /\ LET allBooks == SelectRows(usol_books, counters, proc[p].options)
         r == ComputeResults(allBooks, proc[p].query, proc[p].options)
         w == IF r.cache THEN set(data, proc[p].key, r.results, 0)
              ELSE [ok |-> FALSE, threw |-> FALSE, data |-> data]
     IN /\ data' = w.data
        /\ proc' = [proc EXCEPT ![p] =
                      IF r.threw
                        THEN [@ EXCEPT !.pc = "as_close", !.fetched = @ + 1,
                                       !.status = "error", !.err = "TypeError"]
                      ELSE IF w.threw
                        THEN [@ EXCEPT !.pc = "as_close", !.fetched = @ + 1,
                                       !.computed = TRUE, !.list = r.results,
                                       !.status = "error", !.err = "ECACHEFULL"]
                        ELSE [@ EXCEPT !.pc = "as_close", !.fetched = @ + 1,
                                       !.computed = TRUE, !.list = r.results,
                                       !.status = "ok", !.results = r.results]]
  /\ last' = NoCall
  /\ UNCHANGED <<static, now, hits, misses, gets, lookups, counters, history>>

\* finally: db.close(), then the call settles
CloseDb(p) ==
  /\ proc[p].pc = "as_close"
  /\ proc' = [proc EXCEPT ![p] = [@ EXCEPT !.pc = "as_ret", !.db = "closed"]]
  /\ last' = NoCall
  /\ UNCHANGED <<static, now, data, hits, misses, gets, lookups, counters, history>>

(***************************************************************************)
(* handleSearchEngine (search_engine.js).  pc: "h_deliver" shows the best  *)
(* result and sends its files, "h_alt" is the branch of an empty result    *)
(* before its second search, "done" is the handler returned.               *)
(***************************************************************************)
\* the handler without the return after a failed validation
HandleMessageIgnoresVerdict(p, text, media) ==
  /\ proc[p].pc = "idle"
  /\ BeginSearch(p, [Idle EXCEPT !.kind = "handler", !.text = text, !.media = media,
                                  !.call = 1],
                 NormalizeQuery(Trim(text)), HandlerOptions)
  /\ UNCHANGED <<static, now, counters, history>>

\* a text message: trim, validate, normalize, first search
HandleMessage(p, text, media) ==
  /\ proc[p].pc = "idle"
  /\ LET userInput == Trim(text)
         verdict == validateUserInput(userInput, media)
         searchQuery == NormalizeQuery(userInput)
         request == [Idle EXCEPT !.kind = "handler", !.text = text, !.media = media,
                                 !.call = 1]
     IN IF verdict # "ok"
          THEN /\ proc' = [proc EXCEPT ![p] =
                             [request EXCEPT !.pc = "done", !.status = "rejected",
                                             !.err = verdict]]
               /\ last' = NoCall
               /\ UNCHANGED <<data, hits, misses, gets, lookups>>
          ELSE BeginSearch(p, request, searchQuery, HandlerOptions)
  /\ UNCHANGED <<static, now, counters, history>>

\* the callback of a similar result: the query is the book id, unvalidated
HandleCallback(p, book_id) ==
  /\ proc[p].pc = "idle"
  /\ BeginSearch(p, [Idle EXCEPT !.kind = "callback", !.call = 1], book_id, HandlerOptions)
  /\ UNCHANGED <<static, now, counters, history>>

\* the first search threw, or either search of the handler failed: the
\* catch block replies and the handler returns
HandlerCatch(p) ==
  /\ proc[p].pc = "as_ret"
  /\ proc[p].kind \in {"handler", "callback"}
  /\ proc[p].status = "error"
  /\ proc' = [proc EXCEPT ![p] = [@ EXCEPT !.pc = "done"]]
  /\ last' = NoCall
  /\ UNCHANGED <<static, now, data, hits, misses, gets, lookups, counters, history>>

\* saveSearchHistory after the first search; a failed insert is only logged
SaveSearchHistory(p, saved) ==
  /\ proc[p].pc = "as_ret"
  /\ proc[p].kind \in {"handler", "callback"}
  /\ proc[p].call = 1
  /\ proc[p].status = "ok"
  /\ saved => Len(history) < MaxHistory
  /\ history' = IF saved
                  THEN Append(history, [search_query |-> proc[p].arg,
                                        results_count |-> Len(proc[p].results)])
                  ELSE history
  /\ proc' = [proc EXCEPT ![p] =
                [@ EXCEPT !.pc = IF Len(proc[p].results) > 0 THEN "h_deliver" ELSE "h_alt"]]
  /\ last' = NoCall
  /\ UNCHANGED <<static, now, data, hits, misses, gets, lookups, counters>>

\* the delivery that counts a request whether or not a file was sent
DeliverCountsAlways(p, filesSent) ==
  /\ proc[p].pc = "h_deliver"
  /\ LET bestResult == proc[p].results[1]
     IN /\ filesSent \in 0..BookOf(bestResult.id).file_parts
        /\ counters[bestResult.id].request_count < MaxRequests
        /\ counters' = [counters EXCEPT ![bestResult.id] =
                          [request_count |-> @.request_count + 1,
                           total_requests |-> @.total_requests + 1]]
  /\ proc' = [proc EXCEPT ![p] = [@ EXCEPT !.pc = "done", !.sent = filesSent]]
  /\ last' = NoCall
  /\ UNCHANGED <<static, now, data, hits, misses, gets, lookups, history>>

\* the delivery that empties the cache when it counts a request
DeliverInvalidates(p, filesSent) ==
  /\ proc[p].pc = "h_deliver"
  /\ LET bestResult == proc[p].results[1]
     IN /\ filesSent \in 0..BookOf(bestResult.id).file_parts
        /\ IF filesSent > 0
             THEN /\ counters[bestResult.id].request_count < MaxRequests
                  /\ counters' = [counters EXCEPT ![bestResult.id] =
                                    [request_count |-> @.request_count + 1,
                                     total_requests |-> @.total_requests + 1]]
                  /\ data' = <<>>
             ELSE UNCHANGED <<counters, data>>
  /\ proc' = [proc EXCEPT ![p] = [@ EXCEPT !.pc = "done", !.sent = filesSent]]
  /\ last' = NoCall
  /\ UNCHANGED <<static, now, hits, misses, gets, lookups, history>>

\* the best result is shown and its files are sent (sent: how many went
\* through); when at least one was sent the book's counters are incremented
Deliver(p, filesSent) ==
  /\ proc[p].pc = "h_deliver"
  /\ LET bestResult == proc[p].results[1]
     IN /\ filesSent \in 0..BookOf(bestResult.id).file_parts
        /\ IF filesSent > 0
             THEN /\ counters[bestResult.id].request_count < MaxRequests
                  /\ counters' = [counters EXCEPT ![bestResult.id] =
                                    [request_count |-> @.request_count + 1,
                                     total_requests |-> @.total_requests + 1]]
             ELSE UNCHANGED counters
  /\ proc' = [proc EXCEPT ![p] = [@ EXCEPT !.pc = "done", !.sent = filesSent]]
  /\ last' = NoCall
  /\ UNCHANGED <<static, now, data, hits, misses, gets, lookups, history>>

\* no result: the second, broader search
Alternative(p) ==
  /\ proc[p].pc = "h_alt"
  /\ BeginSearch(p, [Idle EXCEPT !.kind = proc[p].kind, !.text = proc[p].text,
                                  !.media = proc[p].media, !.call = 2],
                 proc[p].arg, AlternativeOptions)
  /\ UNCHANGED <<static, now, counters, history>>

\* the second search returned: the alternatives are shown, if any
ShowAlternatives(p) ==
  /\ proc[p].pc = "as_ret"
  /\ proc[p].kind \in {"handler", "callback"}
  /\ proc[p].call = 2
  /\ proc[p].status = "ok"
  /\ proc' = [proc EXCEPT ![p] = [@ EXCEPT !.pc = "done"]]
  /\ last' = NoCall
  /\ UNCHANGED <<static, now, data, hits, misses, gets, lookups, counters, history>>

\* the request is over
Finish(p) ==
  /\ \/ proc[p].pc = "done"
     \/ proc[p].pc = "as_ret" /\ proc[p].kind = "search"
  /\ proc' = [proc EXCEPT ![p] = Idle]
  /\ last' = NoCall
  /\ UNCHANGED <<static, now, data, hits, misses, gets, lookups, counters, history>>

\* the cache functions called directly
NextCache ==
  \/ \E k \in ApiKeys : CacheGet(k)
  \/ \E k \in ApiKeys, v \in ApiValues, ttl \in ApiTtls : CacheSet(k, v, ttl)
  \/ \E k \in ApiKeys : CacheDel(k)
  \/ CacheFlush
  \/ Tick
  \/ CheckData

\* the steps of request p
NextRequest(p) ==
  \/ \E q \in SearchQueries, o \in SearchOptions : CallAdvancedSearch(p, q, o)
  \/ \E fails \in BOOLEAN : OpenDb(p, fails)
  \/ FetchFails(p)
  \/ Fetch(p)
  \/ CloseDb(p)
  \/ \E m \in Messages : HandleMessage(p, m.text, m.media)
  \/ \E id \in CallbackIds : HandleCallback(p, id)
  \/ HandlerCatch(p)
  \/ \E saved \in BOOLEAN : SaveSearchHistory(p, saved)
  \/ \E n \in 0..1 : Deliver(p, n)
  \/ Alternative(p)
  \/ ShowAlternatives(p)
  \/ Finish(p)

\* requests served one at a time, the cache flushed, time passing
Next ==
  \/ NextRequest("p1")
  \/ CacheFlush
  \/ Tick
  \/ CheckData

Spec == Init /\ [][Next]_vars

\* the cache functions alone
SpecCache == Init /\ [][NextCache]_vars

\* searches with options of every kind over a catalog with request counts
InitSearch ==
  /\ enabled \in BOOLEAN
  /\ usol_books = Books
  /\ now = 0
  /\ data = <<>>
  /\ hits = 0
  /\ misses = 0
  /\ gets = 0
  /\ lookups = 0
  /\ counters \in {[id \in BookIds |-> [request_count |-> c[id], total_requests |-> c[id]]] :
                    c \in [BookIds -> CounterValues]}
  /\ history = <<>>
  /\ proc = [p \in Procs |-> Idle]
  /\ last = NoCall
  /\ applied = NotApplied

NextSearch ==
  \/ \E q \in DirectQueries, o \in DirectOptions : CallAdvancedSearch("p1", q, o)
  \/ \E fails \in BOOLEAN : OpenDb("p1", fails)
  \/ FetchFails("p1")
  \/ Fetch("p1")
  \/ CloseDb("p1")
  \/ Finish("p1")

SpecSearch == InitSearch /\ [][NextSearch]_vars

\* the same searches over the catalog with a row whose title is missing
InitLegacy ==
  /\ enabled \in BOOLEAN
  /\ usol_books = LegacyBooks
  /\ now = 0
  /\ data = <<>>
  /\ hits = 0
  /\ misses = 0
  /\ gets = 0
  /\ lookups = 0
  /\ counters = [id \in BookIds |-> [request_count |-> 0, total_requests |-> 0]]
  /\ history = <<>>
  /\ proc = [p \in Procs |-> Idle]
  /\ last = NoCall
  /\ applied = NotApplied

SpecLegacy == InitLegacy /\ [][NextSearch]_vars

\* the same searches over the catalog of two books on fiqh, requested 5 and
\* 50 times
InitExample ==
  /\ enabled \in BOOLEAN
  /\ usol_books = ExampleBooks
  /\ now = 0
  /\ data = <<>>
  /\ hits = 0
  /\ misses = 0
  /\ gets = 0
  /\ lookups = 0
  /\ counters = [id \in BookIds |->
                   IF id = 1 THEN [request_count |-> 5, total_requests |-> 5]
                   ELSE [request_count |-> 50, total_requests |-> 50]]
  /\ history = <<>>
  /\ proc = [p \in Procs |-> Idle]
  /\ last = NoCall
  /\ applied = NotApplied

SpecExample == InitExample /\ [][NextSearch]_vars

\* the same searches over the catalog with digits in the titles
InitNumbered ==
  /\ enabled \in BOOLEAN
  /\ usol_books = NumberedBooks
  /\ now = 0
  /\ data = <<>>
  /\ hits = 0
  /\ misses = 0
  /\ gets = 0
  /\ lookups = 0
  /\ counters = [id \in BookIds |-> [request_count |-> 0, total_requests |-> 0]]
  /\ history = <<>>
  /\ proc = [p \in Procs |-> Idle]
  /\ last = NoCall
  /\ applied = NotApplied

SpecNumbered == InitNumbered /\ [][NextSearch]_vars

\* requests in flight together: two callers of advancedSearch, one of them
\* also the message handler with its delivery; the cache flushed
NextConcurrent ==
  \/ \E p \in Procs, q \in SearchQueries, o \in SearchOptions : CallAdvancedSearch(p, q, o)
  \/ \E p \in Procs, fails \in BOOLEAN : OpenDb(p, fails)
  \/ \E p \in Procs : FetchFails(p)
  \/ \E p \in Procs : Fetch(p)
  \/ \E p \in Procs : CloseDb(p)
  \/ \E p \in Procs : Finish(p)
  \/ HandleMessage("p2", Fiqh, FALSE)
  \/ HandlerCatch("p2")
  \/ \E saved \in BOOLEAN : SaveSearchHistory("p2", saved)
  \/ \E n \in 0..1 : Deliver("p2", n)
  \/ CacheFlush

SpecConcurrent == Init /\ [][NextConcurrent]_vars

\* the functions of the scorer called on their own, once
CallCalculateSimilarity(str1, str2) ==
  /\ applied' = [fn |-> "calculateSimilarity", str1 |-> str1, str2 |-> str2,
                 out |-> calculateSimilarity(str1, str2)]
  /\ UNCHANGED <<enabled, usol_books, now, data, hits, misses, gets, lookups, counters,
                 history, proc, last>>

CallLevenshteinDistance(str1, str2) ==
  /\ applied' = [fn |-> "levenshteinDistance", str1 |-> str1, str2 |-> str2,
                 out |-> levenshteinDistance(str1, str2)]
  /\ UNCHANGED <<enabled, usol_books, now, data, hits, misses, gets, lookups, counters,
                 history, proc, last>>

\* scoreBook for a row whose title and author are the field, never
\* requested, with the query normalized as advancedSearch normalizes it
CallScoreBook(field, query) ==
  /\ applied' = [fn |-> "scoreBook", str1 |-> field, str2 |-> query,
                 out |-> scoreBook([book_name |-> field, author_name |-> field,
                                    request_count |-> 0],
                                   NormalizeQuery(query))]
  /\ UNCHANGED <<enabled, usol_books, now, data, hits, misses, gets, lookups, counters,
                 history, proc, last>>

NextScorer ==
  \/ /\ applied.fn = "none"
     /\ \E field \in FieldStrings, query \in FieldStrings : CallScoreBook(field, query)
  \/ /\ applied.fn = "none"
     /\ \E str1 \in PureStrings, str2 \in PureStrings : CallCalculateSimilarity(str1, str2)
  \/ /\ applied.fn = "none"
     /\ \E str1 \in EditStrings, str2 \in EditStrings : CallLevenshteinDistance(str1, str2)

InitScorer == Init /\ enabled

SpecScorer == InitScorer /\ [][NextScorer]_vars

\* one search for a drawn query (no cache)
NextNormalize ==
  \/ /\ proc["p1"].pc = "idle"
     /\ \E q \in NormStrings : CallAdvancedSearch("p1", q, HandlerOptions)
  \/ \E fails \in BOOLEAN : OpenDb("p1", fails)
  \/ Fetch("p1")
  \/ CloseDb("p1")

InitNormalize == Init /\ ~enabled

SpecNormalize == InitNormalize /\ [][NextNormalize]_vars

\* caching disabled by configuration: requests and direct cache calls
InitDisabled == Init /\ ~enabled

NextDisabled ==
  \/ \E k \in ApiKeys : CacheGet(k)
  \/ \E k \in ApiKeys, v \in ApiValues, ttl \in ApiTtls : CacheSet(k, v, ttl)
  \/ NextRequest("p1")

SpecDisabled == InitDisabled /\ [][NextDisabled]_vars

(***************************************************************************)
(* Properties.                                                             *)
(***************************************************************************)
\* the option objects the callers pass
OptionObjects == SearchOptions \cup {HandlerOptions, AlternativeOptions}

\* equal as sets of (name, value) pairs
SameOptionSet(o1, o2) == Range(o1) = Range(o2)

\* the searches in flight
Searching(p) == proc[p].key # <<>>

\* C1: the cache key is a function of the normalized query and the option
\* set: a search has the key of every option object equal to its own as a
\* set of (name, value) pairs, whatever the order of the fields, so a search
\* that missed the cache has no live entry written under such an object.
C1_KeyOfOptionSet ==
  \A p \in Procs, o \in OptionObjects :
    (Searching(p) /\ SameOptionSet(o, proc[p].options)) =>
      /\ proc[p].key = generateSearchKey(proc[p].query, o)
      /\ proc[p].pc = "as_open" => ~NcLive(data, generateSearchKey(proc[p].query, o), now)

\* C2: a search that computed its result list returns it, whether or not
\* the cache took it.
C2_CacheWriteFailureHarmless ==
  \A p \in Procs :
    proc[p].computed => (proc[p].status = "ok" /\ proc[p].results = proc[p].list)

\* C3: set never throws, and the cache never holds more than maxKeys keys.
C3_SetNeverThrows ==
  /\ last.op = "set" => ~last.threw
  /\ Cardinality(DOMAIN data) <= maxKeys

\* C4: a message whose text is empty after trimming is rejected: the
\* handler starts no search (no cache lookup, no fetch, no scoring) for it.
C4_EmptyQueryRejected ==
  \A p \in Procs :
    (proc[p].kind = "handler" /\ Trim(proc[p].text) = <<>>) =>
      (proc[p].pc = "done" /\ proc[p].status = "rejected")

\* C5: when validateUserInput rejects the message, handleSearchEngine
\* returns without a search: the cache, the hit and miss counters, the
\* catalog counters and the search history are as they were.
C5_RejectedChangesNothing ==
  [][\A p \in Procs :
       (/\ proc[p].pc = "idle"
        /\ proc'[p].kind = "handler"
        /\ validateUserInput(Trim(proc'[p].text), proc'[p].media) # "ok")
       => /\ proc'[p].pc = "done"
          /\ proc'[p].key = <<>>
          /\ UNCHANGED <<data, hits, misses, gets, counters, history>>]_vars

C5_Witness ==
  \E p \in Procs :
    /\ proc[p].status = "rejected"
    /\ proc[p].err = "media"
    /\ DOMAIN data # {}
    /\ history # <<>>
    /\ hits + misses > 0

C7_HitReturnsCached ==
  [][\A p \in Procs :
       /\ (/\ proc[p].pc \in {"idle", "h_alt"}
           /\ proc'[p].pc \in {"as_ret", "as_open"}
           /\ enabled
           /\ proc'[p].key \in DOMAIN data
           /\ data[proc'[p].key].t >= now)
          => /\ proc'[p].pc = "as_ret"
             /\ proc'[p].status = "ok"
             /\ proc'[p].results = data[proc'[p].key].v
             /\ hits' = hits + 1
             /\ misses' = misses
             /\ data' = data
       /\ proc'[p].hit
          => /\ proc'[p].db = "none"
             /\ proc'[p].fetched = 0
             /\ ~proc'[p].computed]_vars

C7_Witness ==
  \E p \in Procs :
    /\ proc[p].hit
    /\ proc[p].pc = "as_ret"
    /\ proc[p].results # <<>>
    /\ hits = 1

\* C8: a set that succeeds stores the value until now + ttl (stdTTL when
\* no ttl is given); an entry changes only by a set of its key and leaves
\* the cache only by del, flush or after its time; a get of a key whose
\* entry is unexpired returns the stored value and counts a hit, any other
\* get returns absent and counts a miss and no hit.
C8_RoundTrip ==
  [][/\ (last'.op = "set" /\ last'.ok)
        => /\ last'.key \in DOMAIN data'
           /\ data'[last'.key] =
                [v |-> last'.value,
                 t |-> now + (IF last'.ttl # 0 THEN last'.ttl ELSE stdTTL)]
     /\ \A k \in DOMAIN data' :
          ~(last'.op = "set" /\ last'.ok /\ last'.key = k)
          => (k \in DOMAIN data /\ data'[k] = data[k])
     /\ \A k \in (DOMAIN data) \ (DOMAIN data') :
          \/ last'.op = "del" /\ last'.key = k
          \/ last'.op = "flush"
          \/ data[k].t < now
     /\ (last'.op = "get" /\ enabled)
        => IF last'.key \in DOMAIN data /\ now <= data[last'.key].t
             THEN /\ last'.found
                  /\ last'.value = data[last'.key].v
                  /\ hits' = hits + 1
                  /\ misses' = misses
             ELSE /\ ~last'.found
                  /\ hits' = hits
                  /\ misses' = misses + 1]_vars

C8_Witness ==
  /\ last.op = "get"
  /\ ~last.found
  /\ hits = 1
  /\ misses = 1
  /\ now > stdTTL

\* C9: with caching disabled every get returns absent, every set returns
\* false, the cache stays empty, hits and misses stay 0, no search is a
\* cache hit and a search returns the list computed from the fetched rows.
C9_DisabledCacheInert ==
  ~enabled =>
    /\ DOMAIN data = {}
    /\ hits = 0
    /\ misses = 0
    /\ last.op = "get" => ~last.found
    /\ last.op = "set" => (~last.ok /\ ~last.threw)
    /\ \A p \in Procs :
         /\ ~proc[p].hit
         /\ proc[p].pc = "as_close" /\ proc[p].err = "none"
            => /\ proc[p].status = "ok"
               /\ proc[p].results =
                    ComputeResults(SelectRows(usol_books, counters, proc[p].options),
                                   proc[p].query, proc[p].options).results

C9_Witness ==
  /\ ~enabled
  /\ lookups = MaxCount
  /\ \E p \in Procs :
       /\ proc[p].pc = "as_close"
       /\ proc[p].status = "ok"
       /\ proc[p].results # <<>>

\* C10: with the cache enabled a get adds one to hits when it returns a
\* value and one to misses when it returns absent, and nothing to the
\* other counter; set and del leave both; hits + misses is the number of
\* get calls since the start or the last flush.
C10_CountersCountGets ==
  [][enabled =>
       /\ last'.op = "get"
          => \/ last'.found /\ hits' = hits + 1 /\ misses' = misses
             \/ ~last'.found /\ hits' = hits /\ misses' = misses + 1
       /\ last'.op \in {"set", "del"} => (hits' = hits /\ misses' = misses)
       /\ hits' + misses' = gets']_vars

C10_Witness ==
  /\ enabled
  /\ last.op = "del"
  /\ last.found
  /\ hits = 1
  /\ misses = 1

\* C11: a flush leaves no entry (key count 0) and sets hits and misses to
\* 0, whatever preceded it, and a get that follows it returns absent.
C11_FlushEmpties ==
  [][/\ last'.op = "flush"
        => /\ DOMAIN data' = {}
           /\ Cardinality(DOMAIN data') = 0
           /\ hits' = 0
           /\ misses' = 0
     /\ (last.op = "flush" /\ last'.op = "get") => ~last'.found]_vars

C11_Witness ==
  /\ last.op = "flush"
  /\ enabled
  /\ lookups = MaxCount
  /\ hits = 0
  /\ misses = 0
  /\ DOMAIN data = {}

\* the call of p has returned a list
Returned(p) == proc[p].pc = "as_ret" /\ proc[p].status = "ok"

\* the rows the query of p's search selects, each with its score
Candidates(p) ==
  LET rows == SelectRows(usol_books, counters, proc[p].options)
  IN [i \in 1..Len(rows) |-> scoreRow(rows[i], proc[p].query)]

\* the search of p took the exact-ID shortcut
Shortcut(p) ==
  /\ IsNumeric(proc[p].query)
  /\ \E i \in 1..Len(Candidates(p)) : Candidates(p)[i].id = ParseInt(proc[p].query)

\* config.search.fuzzyThreshold as a score
Threshold == config.search.fuzzyThreshold * SimOne

\* a comes no later than b in the order of the sort mode
InOrder(sortBy, a, b) ==
  IF sortBy = <<"popularity">> THEN a.request_count >= b.request_count
  ELSE IF sortBy = <<"name">>
    THEN localeCompare(BookOf(a.id).book_name, BookOf(b.id).book_name) <= 0
  ELSE a.score >= b.score

\* C12: a list advancedSearch returns, computed, cached or from the
\* exact-ID shortcut, is no longer than the limit of its options (the
\* default limit when none is given), for a limit >= 1.
C12_LengthWithinLimit ==
  \A p \in Procs :
    (Returned(p) /\ LimitOf(proc[p].options) >= 1)
    => Len(proc[p].results) <= LimitOf(proc[p].options)

C12_Witness ==
  \E p \in Procs :
    /\ Returned(p)
    /\ proc[p].hit
    /\ proc[p].query = Ali
    /\ LimitOf(proc[p].options) = 1
    /\ Len(proc[p].results) = 1
    /\ Len(Candidates(p)) = 2

\* C13: in a returned list that is not the exact-ID shortcut's every entry
\* carries its computed score and that score is at least the fuzzy
\* threshold, and a candidate with such a score is missing only when the
\* list is as long as the limit.
C13_AboveThreshold ==
  \A p \in Procs :
    (Returned(p) /\ ~Shortcut(p))
    => /\ \A i \in 1..Len(proc[p].results) :
            /\ proc[p].results[i].scored
            /\ proc[p].results[i].score >= Threshold
            /\ \E j \in 1..Len(Candidates(p)) : Candidates(p)[j] = proc[p].results[i]
       /\ \A j \in 1..Len(Candidates(p)) :
            Candidates(p)[j].score >= Threshold
            => \/ \E i \in 1..Len(proc[p].results) :
                    proc[p].results[i].id = Candidates(p)[j].id
               \/ Len(proc[p].results) = LimitOf(proc[p].options)

C13_Witness ==
  \E p \in Procs :
    /\ Returned(p)
    /\ proc[p].query = Fiqh
    /\ Len(Candidates(p)) = 2
    /\ Len(proc[p].results) = 1
    /\ LimitOf(proc[p].options) > 1
    /\ \E j \in 1..2 : Candidates(p)[j].score > 0 /\ Candidates(p)[j].score < Threshold

\* C14: a returned list that is not the shortcut's is in the order of its
\* sort mode (popularity: request counts non-increasing; name: titles
\* non-decreasing; otherwise scores non-increasing), and a candidate that
\* passes the threshold and was cut comes no earlier than any entry kept.
C14_Ordered ==
  \A p \in Procs :
    (Returned(p) /\ ~Shortcut(p))
    => LET L == proc[p].results
           sortBy == SortByOf(proc[p].options)
       IN /\ \A i, j \in 1..Len(L) : i < j => InOrder(sortBy, L[i], L[j])
          /\ \A j \in 1..Len(Candidates(p)) :
               (/\ Candidates(p)[j].score >= Threshold
                /\ \A i \in 1..Len(L) : L[i].id # Candidates(p)[j].id)
               => \A i \in 1..Len(L) : InOrder(sortBy, L[i], Candidates(p)[j])

C14_Witness ==
  \E p \in Procs :
    /\ Returned(p)
    /\ proc[p].query = Ali
    /\ SortByOf(proc[p].options) = <<"popularity">>
    /\ LimitOf(proc[p].options) = 1
    /\ counters[1].request_count < counters[2].request_count
    /\ Len(proc[p].results) = 1
    /\ proc[p].results[1].id = 2

\* C19: the score of every entry of a computed list is title similarity
\* times the title weight plus author similarity times the author weight
\* plus min(request_count / 100, 0.1), and lies between 0 and 1.1.
C19_ScoreFormula ==
  \A p \in Procs :
    (proc[p].computed /\ ~Shortcut(p))
    => \A i \in 1..Len(proc[p].list) :
         LET e == proc[p].list[i]
             q == normalizePersianArabicChars(ToLowerCase(proc[p].query))
             title == normalizePersianArabicChars(ToLowerCase(BookOf(e.id).book_name))
             author == normalizePersianArabicChars(ToLowerCase(BookOf(e.id).author_name))
             boost == IF e.request_count <= 10 THEN e.request_count * LenLcm
                      ELSE 10 * LenLcm
         IN /\ e.score = calculateSimilarity(title, q) * config.search.weights.bookName
                         + calculateSimilarity(author, q) * config.search.weights.authorName
                         + boost
            /\ e.score >= 0
            /\ 10 * e.score <= 11 * ScoreOne

C19_Witness ==
  \E p \in Procs :
    /\ proc[p].computed
    /\ proc[p].query = Ali
    /\ \E i \in 1..Len(proc[p].list) :
         /\ proc[p].list[i].request_count = 20
         /\ proc[p].list[i].score = 3 * SimOne + 10 * LenLcm

\* C20: after a fetch that returned no row, the search returns an empty
\* list and the cache holds an empty list under the search key.
C20_EmptyFetchCached ==
  \A p \in Procs :
    (/\ enabled
     /\ proc[p].computed
     /\ proc[p].pc = "as_close"
     /\ Len(Candidates(p)) = 0)
    => /\ proc[p].results = <<>>
       /\ proc[p].key \in DOMAIN data
       /\ data[proc[p].key].v = <<>>

\* C15: no step of advancedSearch changes request_count or total_requests;
\* the counters of a book change only when the handler finishes delivering
\* it as the best result with at least one file sent, each by exactly 1;
\* a delivery with no file sent changes nothing; no counter decreases.
C15_CountersOnlyOnDelivery ==
  [][/\ \A id \in BookIds :
          /\ counters'[id].request_count >= counters[id].request_count
          /\ counters'[id].total_requests >= counters[id].total_requests
          /\ counters'[id] # counters[id]
             => /\ counters'[id] =
                     [request_count |-> counters[id].request_count + 1,
                      total_requests |-> counters[id].total_requests + 1]
                /\ \E p \in Procs :
                     /\ proc[p].pc = "h_deliver"
                     /\ proc'[p].pc = "done"
                     /\ proc[p].results[1].id = id
                     /\ proc'[p].sent > 0
     /\ \A p \in Procs :
          /\ (proc[p].pc = "h_deliver" /\ proc'[p].pc = "done" /\ proc'[p].sent = 0)
             => counters' = counters
          /\ (/\ proc'[p] # proc[p]
              /\ \/ proc[p].pc \in {"as_open", "as_fetch", "as_close"}
                 \/ proc'[p].pc \in {"as_open", "as_ret"})
             => counters' = counters]_vars

C15_Witness ==
  \E p \in Procs :
    /\ proc[p].pc = "done"
    /\ proc[p].sent = 0
    /\ proc[p].results # <<>>
    /\ proc[p].results[1].id = 1
    /\ counters[1].request_count = 1
    /\ counters[2].request_count = 0

\* the look-alike class of a character
ClassOf(c) ==
  IF c \in {"kaf_fa", "kaf"} THEN {"kaf_fa", "kaf"}
  ELSE IF c \in {"yeh_fa", "alef_maksura", "yeh_hamza", "yeh"}
    THEN {"yeh_fa", "alef_maksura", "yeh_hamza", "yeh"}
  ELSE IF c \in {"waw_hamza", "waw"} THEN {"waw_hamza", "waw"}
  ELSE IF c \in {"alef_hamza_below", "alef_hamza_above", "alef_madda", "alef"}
    THEN {"alef_hamza_below", "alef_hamza_above", "alef_madda", "alef"}
  ELSE IF c \in {"teh_marbuta", "heh"} THEN {"teh_marbuta", "heh"}
  ELSE {c}

\* the strings that differ from s only by look-alikes
RECURSIVE Variants(_)
Variants(s) ==
  IF s = <<>> THEN {<<>>}
  ELSE {<<c>> \o t : c \in ClassOf(Head(s)), t \in Variants(Tail(s))}

\* s with every letter that has look-alikes replaced by another of its class
Swapped(s) ==
  [i \in 1..Len(s) |->
     IF ClassOf(s[i]) = {s[i]} THEN s[i] ELSE CHOOSE d \in ClassOf(s[i]) : d # s[i]]

\* C16: normalizing twice is normalizing once: the normalized query of a
\* search is what the normalizer gives for the query passed, and the
\* normalizer leaves it as it is.
C16_NormalizeIdempotent ==
  \A p \in Procs :
    Searching(p)
    => /\ proc[p].query = NormalizeQuery(proc[p].arg)
       /\ NormalizeQuery(proc[p].query) = proc[p].query
       /\ NormalizeQuery(NormalizeQuery(proc[p].arg)) = NormalizeQuery(proc[p].arg)

C16_Witness ==
  \E p \in Procs :
    /\ Searching(p)
    /\ proc[p].arg = <<" ", "yeh_fa", "fa9", " ">>
    /\ proc[p].query = <<"yeh", "9">>

\* C17: digit folding maps position by position: the normalized query is
\* as long as the trimmed, letter-folded query; a digit of either script
\* has become the ASCII digit of its value; any other character is itself.
C17_DigitsFoldInPlace ==
  \A p \in Procs :
    Searching(p)
    => LET folded == normalizePersianArabicChars(proc[p].arg)
           out == proc[p].query
       IN /\ Len(out) = Len(folded)
          /\ \A i \in 1..Len(folded) :
               \/ \E d \in 1..10 :
                    /\ folded[i] \in {arabicDigits[d], persianDigits[d]}
                    /\ out[i] = englishDigits[d]
               \/ /\ folded[i] \notin Range(arabicDigits) \cup Range(persianDigits)
                  /\ out[i] = folded[i]

C17_Witness ==
  \E p \in Procs :
    /\ Searching(p)
    /\ proc[p].arg = <<" ", "kaf", "ar1">>
    /\ proc[p].query = <<"kaf", "1">>

\* C18: when a search has generated its key, every string that differs
\* from its query only by look-alikes normalizes to the search's
\* normalized query and so has the same cache key, and the string with
\* every such letter replaced by another of its class gives every book the
\* same score.
C18_VariantsNormalizeAlike ==
  \A p \in Procs :
    proc[p].pc = "as_open"
    => LET rows == [i \in 1..Len(usol_books) |->
                      [book_name |-> usol_books[i].book_name,
                       author_name |-> usol_books[i].author_name,
                       request_count |-> counters[usol_books[i].id].request_count]]
           scores == [i \in 1..Len(usol_books) |-> scoreBook(rows[i], proc[p].query)]
       IN /\ \A s \in Variants(proc[p].arg) :
               /\ NormalizeQuery(s) = proc[p].query
               /\ generateSearchKey(NormalizeQuery(s), proc[p].options) = proc[p].key
          /\ \A i \in 1..Len(usol_books) :
               scoreBook(rows[i], NormalizeQuery(Swapped(proc[p].arg))) = scores[i]

C18_Witness ==
  \E p \in Procs :
    /\ Searching(p)
    /\ proc[p].arg = <<"kaf_fa", "teh_marbuta">>
    /\ proc[p].query = <<"kaf", "heh">>
    /\ proc[p].pc = "as_open"

\* the fetched rows of p's search, a row that scoreBook throws for scored 0
ScoredOrZero(p) ==
  LET rows == SelectRows(usol_books, counters, proc[p].options)
  IN [i \in 1..Len(rows) |->
        IF scoreBookThrows(BookOf(rows[i].id))
          THEN [rows[i] EXCEPT !.scored = TRUE, !.score = 0]
          ELSE scoreRow(rows[i], proc[p].query)]

\* scoring a fetched row of p's search throws
ScoringThrows(p) ==
  LET rows == SelectRows(usol_books, counters, proc[p].options)
  IN /\ ~(IsNumeric(proc[p].query)
          /\ \E i \in 1..Len(rows) : rows[i].id = ParseInt(proc[p].query))
     /\ \E i \in 1..Len(rows) : scoreBookThrows(BookOf(rows[i].id))

\* C21: when scoring a fetched row throws (its title is missing), the row
\* counts as scored 0 and the search returns the list made of the other
\* rows: scored, filtered, sorted and cut to the limit.
C21_ScoringExceptionSkipped ==
  \A p \in Procs :
    (/\ proc[p].pc = "as_close"
     /\ proc[p].err \notin {"SQLITE_ERROR", "ECACHEFULL"}
     /\ ScoringThrows(p))
    => /\ proc[p].status = "ok"
       /\ proc[p].results =
            Slice0(Sort(FilterScore(ScoredOrZero(p), Threshold), SortByOf(proc[p].options)),
                   LimitOf(proc[p].options))

\* C22: when the normalized query is all ASCII digits and a fetched row has
\* that number as its id, the search returns the list of exactly that row,
\* unscored, and, with the cache enabled, the cache holds that list under
\* the search key.
C22_ShortcutReturnsAndCaches ==
  \A p \in Procs :
    (/\ proc[p].pc = "as_close"
     /\ proc[p].err # "SQLITE_ERROR"
     /\ Shortcut(p))
    => /\ proc[p].status = "ok"
       /\ Len(proc[p].results) = 1
       /\ proc[p].results[1].id = ParseInt(proc[p].query)
       /\ ~proc[p].results[1].scored
       /\ enabled => (/\ proc[p].key \in DOMAIN data
                      /\ data[proc[p].key].v = proc[p].results)

RemoveAt(s, i) == SubSeq(s, 1, i - 1) \o SubSeq(s, i + 1, Len(s))

\* t is s with one character inserted, deleted or substituted
OneEdit(s, t) ==
  \/ Len(t) = Len(s) /\ Cardinality({i \in 1..Len(s) : s[i] # t[i]}) = 1
  \/ Len(t) = Len(s) + 1 /\ \E i \in 1..Len(t) : RemoveAt(t, i) = s
  \/ Len(s) = Len(t) + 1 /\ \E i \in 1..Len(s) : RemoveAt(s, i) = t

\* the number of rounds after which b is among the strings reached, when
\* k rounds led to the strings of reached and every round adds the strings
\* one edit away (a shortest sequence of edits passes through no string
\* longer than the longer end, and needs no character that b lacks)
RECURSIVE EditsFrom(_, _, _)
EditsFrom(reached, b, k) ==
  IF b \in reached THEN k
  ELSE EditsFrom(reached \cup {t \in EditStrings : \E u \in reached : OneEdit(u, t)}, b, k + 1)

\* the least number of single-character edits that turn a into b
MinEdits(a, b) == EditsFrom({a}, b, 0)

\* C24: calculateSimilarity ignores case and gives 1 for equal strings,
\* else 0.9 when one string is a prefix of the other, else 0.7 when one
\* contains the other, else 1 - (edit distance) / (the greater length);
\* the result lies between 0 and 1.
C24_Cascade ==
  applied.fn = "calculateSimilarity"
  => LET a == ToLowerCase(applied.str1)
         b == ToLowerCase(applied.str2)
         prefix == \/ \E k \in 0..Len(b) : SubSeq(b, 1, k) = a
                   \/ \E k \in 0..Len(a) : SubSeq(a, 1, k) = b
         within == \/ \E i \in 1..(Len(b) + 1), j \in 0..Len(b) : SubSeq(b, i, j) = a
                   \/ \E i \in 1..(Len(a) + 1), j \in 0..Len(a) : SubSeq(a, i, j) = b
     IN /\ applied.out >= 0
        /\ applied.out <= SimOne
        /\ IF a = b THEN applied.out = SimOne
           ELSE IF prefix THEN 10 * applied.out = 9 * SimOne
           ELSE IF within THEN 10 * applied.out = 7 * SimOne
           ELSE applied.out * Max(Len(a), Len(b))
                = (Max(Len(a), Len(b)) - MinEdits(a, b)) * SimOne

\* strings in different cases, one a proper prefix of the other
C24_Witness ==
  /\ applied.fn = "calculateSimilarity"
  /\ applied.str1 = <<"A", "b">>
  /\ applied.str2 = <<"a", "b", "a">>
  /\ 10 * applied.out = 9 * SimOne

\* C25: levenshteinDistance(a, b) is the least number of single-character
\* insertions, deletions and substitutions that turn a into b; it is the
\* same for (b, a), 0 for equal strings and the length of a when b is empty.
C25_EditDistance ==
  applied.fn = "levenshteinDistance"
  => /\ applied.out = MinEdits(applied.str1, applied.str2)
     /\ applied.out = levenshteinDistance(applied.str2, applied.str1)
     /\ applied.str1 = applied.str2 => applied.out = 0
     /\ applied.str2 = <<>> => applied.out = Len(applied.str1)
     /\ applied.str1 = <<>> => applied.out = Len(applied.str2)

\* a deletion and a substitution
C25_Witness ==
  /\ applied.fn = "levenshteinDistance"
  /\ applied.str1 = <<"a", "b", "a">>
  /\ applied.str2 = <<"b", "b">>
  /\ applied.out = 2

\* C26: a stored field and a query that have the same canonical form
\* (letters folded, digits folded, trimmed) are compared as equal: the row
\* whose title and author are that field has similarity 1.0 in both, so the
\* score 1.0.
C26_SameCanonicalForm ==
  (/\ applied.fn = "scoreBook"
   /\ NormalizeQuery(applied.str1) = NormalizeQuery(applied.str2))
  => applied.out = ScoreOne

\* the search of the example: the query "fqh", default options
ExampleSearch(p) == Returned(p) /\ proc[p].query = Fiqh /\ proc[p].options = <<>>

\* the similarity scoreBook computes for the title of an entry
TitleSimilarity(e, query) ==
  calculateSimilarity(normalizePersianArabicChars(ToLowerCase(BookOf(e.id).book_name)),
                      normalizePersianArabicChars(ToLowerCase(query)))

\* C27 as stated: the search of the example returns both books, book 2
\* first, each with title similarity 0.7.
C27_ExampleEqualTitleSimilarity ==
  \A p \in Procs :
    ExampleSearch(p)
    => /\ Len(proc[p].results) = 2
       /\ proc[p].results[1].id = 2
       /\ proc[p].results[2].id = 1
       /\ \A i \in 1..2 : 10 * TitleSimilarity(proc[p].results[i], Fiqh) = 7 * SimOne

\* C27: the search of the example returns both books, book 2 first: book 2,
\* whose title begins with the query, has title similarity 0.9 and score
\* 0.9 * 0.7 + 0.1 = 0.73; book 1, whose title contains the query, has
\* title similarity 0.7 and score 0.7 * 0.7 + 0.05 = 0.54.
C27_ExampleRanking ==
  \A p \in Procs :
    ExampleSearch(p)
    => /\ Len(proc[p].results) = 2
       /\ proc[p].results[1].id = 2
       /\ proc[p].results[2].id = 1
       /\ proc[p].results[1].score = 73 * (ScoreOne \div 100)
       /\ proc[p].results[2].score = 54 * (ScoreOne \div 100)
       /\ proc[p].results[1].request_count = 50
       /\ proc[p].results[2].request_count = 5

C27_Witness ==
  \E p \in Procs :
    /\ ExampleSearch(p)
    /\ usol_books = ExampleBooks
    /\ ~proc[p].hit
    /\ Len(proc[p].results) = 2
    /\ proc[p].results[1].id = 2

\* p's handler, whose first search returned an empty list, starts its
\* second search in this step, the cache enabled
SecondSearchStarts(p) == proc[p].pc = "h_alt" /\ proc'[p].call = 2 /\ enabled

C29_NoInvalidation ==
  [][/\ counters' # counters => data' = data
     /\ \A p \in Procs :
          (/\ proc'[p] # proc[p]
           /\ proc'[p].pc \in {"as_ret", "as_open"}
           /\ proc[p].pc \in {"idle", "h_alt"}
           /\ enabled
           /\ proc'[p].key \in DOMAIN data
           /\ data[proc'[p].key].t >= now)
          => /\ proc'[p].hit
             /\ proc'[p].results = data[proc'[p].key].v
     /\ \A k \in (DOMAIN data) \ (DOMAIN data') :
          \/ last'.op \in {"flush", "del"}
          \/ data[k].t < now]_vars

\* a hit that returns a book with the request count it had before its
\* delivery
C29_Witness ==
  \E p \in Procs :
    /\ proc[p].hit
    /\ proc[p].pc = "as_ret"
    /\ proc[p].results # <<>>
    /\ proc[p].results[1].id = 1
    /\ proc[p].results[1].request_count = 0
    /\ counters[1].request_count = 1
    /\ proc[p].results # ComputeResults(SelectRows(usol_books, counters, proc[p].options),
                                        proc[p].query, proc[p].options).results

\* C30: when the normalized query is all ASCII digits and no fetched row
\* has that number as its id, the search returns the fetched rows scored
\* against the digit string, filtered by the threshold, sorted and cut to
\* the limit, and, with the cache enabled, the cache holds that list under
\* the search key.
C30_NumericWithoutMatchScored ==
  \A p \in Procs :
    (/\ proc[p].pc = "as_close"
     /\ proc[p].err # "SQLITE_ERROR"
     /\ IsNumeric(proc[p].query)
     /\ ~Shortcut(p)
     /\ Len(Candidates(p)) > 0)
    => /\ proc[p].status = "ok"
       /\ proc[p].results =
            Slice0(Sort(FilterScore(Candidates(p), Threshold), SortByOf(proc[p].options)),
                   LimitOf(proc[p].options))
       /\ enabled => (/\ proc[p].key \in DOMAIN data
                      /\ data[proc[p].key].v = proc[p].results)

====
